---- MODULE Spec2Model ----
\* Frame tree, execution-context registry and navigation-wait protocol of
\* src/firefox/FrameManager.ts.
EXTENDS Integers, Sequences, FiniteSets, TLC

\* ---------------------------------------------------------------- bounds
\* Frame objects ever constructed by a successful attach.
MaxFrames == 3
\* ExecutionContext objects ever constructed.
MaxContexts == 2
\* waitForFrameNavigation / navigateFrame calls ever made.
MaxCalls == 1

\* ---------------------------------------------------------------- inputs
FrameIds == {"f1", "f2", "f3"}
ContextIds == {"c1", "c2"}
Urls == {"u1"}
Names == {"n1"}
NavigationIds == {"nav1"}
EventNames == {"load", "DOMContentLoaded", "Load"}
\* timeout values a caller passes; 0 is the falsy one
Timeouts == {0, 5}
WaitUntilTokens == {"load", "domcontentloaded", "networkidle"}

\* `null` for object references (Frame and ExecutionContext objects are
\* numbered from 1 in creation order)
Null == 0

VARIABLES
  frameObjs,            \* every Frame constructed so far, with its FrameData
  _frames,              \* Map<string, Frame>
  _mainFrame,           \* Frame | null
  contextObjs,          \* every ExecutionContext constructed so far
  _contextIdToContext,  \* Map<string, ExecutionContext>
  listening,            \* _eventListeners are registered on the session
  calls,                \* the waitForFrameNavigation / navigateFrame calls
  lastOp,               \* the operation that ran in the last step
  thrown,               \* what that operation threw ("" when nothing)
  emitted,              \* the domain events it emitted, in order
  notified              \* the Frame notifications it made, in order

vars == <<frameObjs, _frames, _mainFrame, contextObjs, _contextIdToContext,
          listening, calls, lastOp, thrown, emitted, notified>>

treeVars == <<frameObjs, _frames, _mainFrame>>
contextVars == <<contextObjs, _contextIdToContext>>

\* ---------------------------------------------------------------- values
NoParams ==
  [frameId |-> "", parentFrameId |-> "", url |-> "", name |-> "",
   navigationId |-> "", executionContextId |-> "", hasAuxData |-> FALSE,
   call |-> 0, frame |-> 0, hasTimeout |-> FALSE, timeout |-> 0,
   hasWaitUntil |-> FALSE, isArray |-> FALSE, tokens |-> <<>>,
   error |-> "", response |-> ""]

Op(name, params) == [op |-> name, params |-> params]

AssertionError == "AssertionError: INTERNAL ERROR: re-attaching main frame!"
TypeError == "TypeError"

\* Map.get(key) || null
MapGet(map, key) == IF key \in DOMAIN map THEN map[key] ELSE Null
\* Map.set(key, value)
MapSet(map, key, value) ==
  [k \in DOMAIN map \cup {key} |-> IF k = key THEN value ELSE map[k]]
\* Map.delete(key)
MapDelete(map, key) == [k \in DOMAIN map \ {key} |-> map[k]]

\* String.prototype.toLowerCase on the event names of the protocol
toLowerCase(name) ==
  CASE name = "load" -> "load"
    [] name = "Load" -> "load"
    [] name = "DOMContentLoaded" -> "domcontentloaded"
    [] OTHER -> name

Range(seq) == {seq[i] : i \in DOMAIN seq}

\* ---------------------------------------------------------------- Frame
\* new frames.Frame(delegate, timeoutSettings, parentFrame) followed by the
\* FrameData the manager stashes on it: the heap after construction.
NewFrame(heap, parentFrame, frameId) ==
  LET self == Len(heap) + 1
      linked == IF parentFrame = Null THEN heap
                ELSE [heap EXCEPT ![parentFrame].childFrames = Append(@, self)]
  IN Append(linked,
            [frameId |-> frameId, lastCommittedNavigationId |-> "",
             firedEvents |-> {}, parentFrame |-> parentFrame,
             childFrames |-> <<>>, url |-> "", name |-> "",
             detached |-> FALSE])

RemoveFrom(seq, x) == SelectSeq(seq, LAMBDA y : y # x)

\* Frame._detach(): marked detached and removed from the tree
FrameDetach(heap, frame) ==
  LET parent == heap[frame].parentFrame
      unlinked == IF parent = Null THEN heap
                  ELSE [heap EXCEPT ![parent].childFrames = RemoveFrom(@, frame)]
  IN [unlinked EXCEPT ![frame].detached = TRUE]

\* Frame._navigated(url, name)
FrameNavigated(heap, frame, url, name) ==
  [heap EXCEPT ![frame].url = url, ![frame].name = name]

\* Frame.childFrames()
childFrames(frame) == frameObjs[frame].childFrames

\* ---------------------------------------------------------------- frames()
RECURSIVE collectChildrenFirst(_), collectAllChildrenFirst(_)
collectChildrenFirst(frame) ==
  collectAllChildrenFirst(childFrames(frame)) \o <<frame>>
collectAllChildrenFirst(subframes) ==
  IF subframes = <<>> THEN <<>>
  ELSE collectChildrenFirst(Head(subframes)) \o collectAllChildrenFirst(Tail(subframes))

RECURSIVE collect(_), collectAll(_)
\* function collect(frame): push the frame, then collect each subframe
collect(frame) ==
  <<frame>> \o collectAll(childFrames(frame))
\* the for-of loop over frame.childFrames()
collectAll(subframes) ==
  IF subframes = <<>> THEN <<>>
  ELSE collect(Head(subframes)) \o collectAll(Tail(subframes))

\* frames(): collect(null) dereferences null, so the call throws TypeError
\* while there is no main frame
framesThrows == _mainFrame = Null
frames == IF _mainFrame = Null THEN <<>> ELSE collect(_mainFrame)

\* ---------------------------------------------------------------- Init
Init ==
  /\ frameObjs = <<>>
  /\ _frames = <<>>
  /\ _mainFrame = Null
  /\ contextObjs = <<>>
  /\ _contextIdToContext = <<>>
  /\ listening = TRUE
  /\ calls = <<>>
  /\ lastOp = Op("constructor", NoParams)
  /\ thrown = ""
  /\ emitted = <<>>
  /\ notified = <<>>

Event(type, frame) == [type |-> type, frame |-> frame]

\* ---------------------------------------------------------------- handlers
AttachParams ==
  {[NoParams EXCEPT !.frameId = f, !.parentFrameId = p] :
     f \in FrameIds, p \in FrameIds \cup {""}}

_onFrameAttachedSetsBeforeAssert(params) ==
  /\ listening
  /\ lastOp' = Op("frameAttached", params)
  /\ notified' = <<>>
  /\ UNCHANGED <<contextVars, listening, calls>>
  /\ LET parentFrame == MapGet(_frames, params.parentFrameId)
         frame == Len(frameObjs) + 1
     IN IF parentFrame = Null /\ _mainFrame # Null
        THEN /\ frame <= MaxFrames
             /\ frameObjs' = NewFrame(frameObjs, parentFrame, params.frameId)
             /\ _frames' = MapSet(_frames, params.frameId, frame)
             /\ thrown' = AssertionError
             /\ emitted' = <<>>
             /\ UNCHANGED _mainFrame
        ELSE /\ frame <= MaxFrames
             /\ frameObjs' = NewFrame(frameObjs, parentFrame, params.frameId)
             /\ _mainFrame' = IF parentFrame = Null THEN frame ELSE _mainFrame
             /\ _frames' = MapSet(_frames, params.frameId, frame)
             /\ thrown' = ""
             /\ emitted' = <<Event("FrameAttached", frame)>>

\* A Frame constructed with a null parent touches no other object, so the
\* one the failing branch constructs and drops is not kept in frameObjs.
_onFrameAttached(params) ==
  /\ listening
  /\ lastOp' = Op("frameAttached", params)
  /\ notified' = <<>>
  /\ UNCHANGED <<contextVars, listening, calls>>
  /\ LET parentFrame == MapGet(_frames, params.parentFrameId)
         frame == Len(frameObjs) + 1
     IN IF parentFrame = Null /\ _mainFrame # Null
        THEN /\ thrown' = AssertionError
             /\ emitted' = <<>>
             /\ UNCHANGED treeVars
        ELSE /\ frame <= MaxFrames
             /\ frameObjs' = NewFrame(frameObjs, parentFrame, params.frameId)
             /\ _mainFrame' = IF parentFrame = Null THEN frame ELSE _mainFrame
             /\ _frames' = MapSet(_frames, params.frameId, frame)
             /\ thrown' = ""
             /\ emitted' = <<Event("FrameAttached", frame)>>

DetachParams == {[NoParams EXCEPT !.frameId = f] : f \in FrameIds}

_onFrameDetachedClearsMainFrame(params) ==
  /\ listening
  /\ lastOp' = Op("frameDetached", params)
  /\ notified' = <<>>
  /\ UNCHANGED <<contextVars, listening, calls>>
  /\ LET frame == MapGet(_frames, params.frameId)
     IN IF frame = Null
        THEN /\ thrown' = TypeError
             /\ emitted' = <<>>
             /\ UNCHANGED <<frameObjs, _frames, _mainFrame>>
        ELSE /\ _frames' = MapDelete(_frames, params.frameId)
             /\ _mainFrame' = IF frame = _mainFrame THEN Null ELSE _mainFrame
             /\ frameObjs' = FrameDetach(frameObjs, frame)
             /\ thrown' = ""
             /\ emitted' = <<Event("FrameDetached", frame)>>

_onFrameDetachedIgnoresUnknown(params) ==
  /\ listening
  /\ lastOp' = Op("frameDetached", params)
  /\ notified' = <<>>
  /\ thrown' = ""
  /\ UNCHANGED <<contextVars, listening, calls, _mainFrame>>
  /\ LET frame == MapGet(_frames, params.frameId)
     IN IF frame = Null
        THEN /\ emitted' = <<>>
             /\ UNCHANGED <<frameObjs, _frames>>
        ELSE /\ _frames' = MapDelete(_frames, params.frameId)
             /\ frameObjs' = FrameDetach(frameObjs, frame)
             /\ emitted' = <<Event("FrameDetached", frame)>>

_onFrameDetachedWithChildren(params) ==
  /\ listening
  /\ lastOp' = Op("frameDetached", params)
  /\ notified' = <<>>
  /\ UNCHANGED <<contextVars, listening, calls, _mainFrame>>
  /\ LET frame == MapGet(_frames, params.frameId)
     IN IF frame = Null
        THEN /\ thrown' = TypeError
             /\ emitted' = <<>>
             /\ UNCHANGED <<frameObjs, _frames>>
        ELSE /\ _frames' =
                  [id \in {id \in DOMAIN _frames :
                             /\ id # params.frameId
                             /\ frameObjs[_frames[id]].parentFrame # frame}
                     |-> _frames[id]]
             /\ frameObjs' = FrameDetach(frameObjs, frame)
             /\ thrown' = ""
             /\ emitted' = <<Event("FrameDetached", frame)>>

_onFrameDetached(params) ==
  /\ listening
  /\ lastOp' = Op("frameDetached", params)
  /\ notified' = <<>>
  /\ UNCHANGED <<contextVars, listening, calls, _mainFrame>>
  /\ LET frame == MapGet(_frames, params.frameId)
     IN IF frame = Null
        THEN \* the delete is a no-op, then undefined._detach() throws
             /\ thrown' = TypeError
             /\ emitted' = <<>>
             /\ UNCHANGED <<frameObjs, _frames>>
        ELSE /\ _frames' = MapDelete(_frames, params.frameId)
             /\ frameObjs' = FrameDetach(frameObjs, frame)
             /\ thrown' = ""
             /\ emitted' = <<Event("FrameDetached", frame)>>

CommitParams ==
  {[NoParams EXCEPT !.frameId = f, !.url = u, !.name = n, !.navigationId = i] :
     f \in FrameIds, u \in Urls, n \in Names \cup {""}, i \in NavigationIds}

_onNavigationCommittedKeepsEvents(params) ==
  /\ listening
  /\ lastOp' = Op("navigationCommitted", params)
  /\ notified' = <<>>
  /\ UNCHANGED <<contextVars, listening, calls, _mainFrame, _frames>>
  /\ LET frame == MapGet(_frames, params.frameId)
     IN IF frame = Null
        THEN /\ thrown' = TypeError
             /\ emitted' = <<>>
             /\ UNCHANGED frameObjs
        ELSE /\ frameObjs' =
                  [FrameNavigated(frameObjs, frame, params.url, params.name)
                     EXCEPT ![frame].lastCommittedNavigationId = params.navigationId]
             /\ thrown' = ""
             /\ emitted' = <<Event("FrameNavigated", frame)>>

_onNavigationCommitted(params) ==
  /\ listening
  /\ lastOp' = Op("navigationCommitted", params)
  /\ notified' = <<>>
  /\ UNCHANGED <<contextVars, listening, calls, _mainFrame, _frames>>
  /\ LET frame == MapGet(_frames, params.frameId)
     IN IF frame = Null
        THEN /\ thrown' = TypeError
             /\ emitted' = <<>>
             /\ UNCHANGED frameObjs
        ELSE /\ frameObjs' =
                  [FrameNavigated(frameObjs, frame, params.url, params.name)
                     EXCEPT ![frame].lastCommittedNavigationId = params.navigationId,
                            ![frame].firedEvents = {}]
             /\ thrown' = ""
             /\ emitted' = <<Event("FrameNavigated", frame)>>

\* a same-document navigation moves to a fragment of the document
SameDocumentUrls == {"u1#a"}
SameDocumentParams ==
  {[NoParams EXCEPT !.frameId = f, !.url = u] :
     f \in FrameIds, u \in Urls \cup SameDocumentUrls}

_onSameDocumentNavigationTakesName(params) ==
  /\ listening
  /\ lastOp' = Op("sameDocumentNavigation", params)
  /\ notified' = <<>>
  /\ UNCHANGED <<contextVars, listening, calls, _mainFrame, _frames>>
  /\ LET frame == MapGet(_frames, params.frameId)
     IN IF frame = Null
        THEN /\ thrown' = TypeError
             /\ emitted' = <<>>
             /\ UNCHANGED frameObjs
        ELSE /\ frameObjs' =
                  FrameNavigated(frameObjs, frame, params.url, params.name)
             /\ thrown' = ""
             /\ emitted' = <<Event("FrameNavigated", frame)>>

_onSameDocumentNavigation(params) ==
  /\ listening
  /\ lastOp' = Op("sameDocumentNavigation", params)
  /\ notified' = <<>>
  /\ UNCHANGED <<contextVars, listening, calls, _mainFrame, _frames>>
  /\ LET frame == MapGet(_frames, params.frameId)
     IN IF frame = Null
        THEN /\ thrown' = TypeError
             /\ emitted' = <<>>
             /\ UNCHANGED frameObjs
        ELSE /\ frameObjs' =
                  FrameNavigated(frameObjs, frame, params.url, frameObjs[frame].name)
             /\ thrown' = ""
             /\ emitted' = <<Event("FrameNavigated", frame)>>

EventFiredParams ==
  {[NoParams EXCEPT !.frameId = f, !.name = n] : f \in FrameIds, n \in EventNames}

_onEventFiredOnAnyFrame(params) ==
  /\ listening
  /\ lastOp' = Op("eventFired", params)
  /\ notified' = <<>>
  /\ UNCHANGED <<contextVars, listening, calls, _mainFrame, _frames>>
  /\ LET frame == MapGet(_frames, params.frameId)
     IN IF frame = Null
        THEN /\ thrown' = TypeError
             /\ emitted' = <<>>
             /\ UNCHANGED frameObjs
        ELSE /\ frameObjs' =
                  [frameObjs EXCEPT ![frame].firedEvents = @ \cup {toLowerCase(params.name)}]
             /\ thrown' = ""
             /\ emitted' =
                  IF params.name = "load" THEN <<Event("Load", Null)>>
                  ELSE IF params.name = "DOMContentLoaded"
                       THEN <<Event("DOMContentLoaded", Null)>>
                       ELSE <<>>

_onEventFired(params) ==
  /\ listening
  /\ lastOp' = Op("eventFired", params)
  /\ notified' = <<>>
  /\ UNCHANGED <<contextVars, listening, calls, _mainFrame, _frames>>
  /\ LET frame == MapGet(_frames, params.frameId)
     IN IF frame = Null
        THEN \* _frameData(undefined) throws
             /\ thrown' = TypeError
             /\ emitted' = <<>>
             /\ UNCHANGED frameObjs
        ELSE /\ frameObjs' =
                  [frameObjs EXCEPT ![frame].firedEvents = @ \cup {toLowerCase(params.name)}]
             /\ thrown' = ""
             /\ emitted' =
                  IF frame = _mainFrame
                  THEN IF params.name = "load" THEN <<Event("Load", Null)>>
                       ELSE IF params.name = "DOMContentLoaded"
                            THEN <<Event("DOMContentLoaded", Null)>>
                            ELSE <<>>
                  ELSE <<>>

ContextCreatedParams ==
  {[NoParams EXCEPT !.executionContextId = c] : c \in ContextIds}
  \cup {[NoParams EXCEPT !.executionContextId = c, !.hasAuxData = TRUE, !.frameId = f] :
          c \in ContextIds, f \in FrameIds}

\* ExecutionContext.frame(): the frame of the DOMWorld bound at creation
contextFrame(context) == contextObjs[context].frame

_onExecutionContextCreated(params) ==
  /\ listening
  /\ lastOp' = Op("executionContextCreated", params)
  /\ UNCHANGED <<treeVars, listening, calls>>
  /\ LET frameId == IF params.hasAuxData THEN params.frameId ELSE ""
         frame == MapGet(_frames, frameId)
         context == Len(contextObjs) + 1
     IN /\ context <= MaxContexts
        /\ contextObjs' = Append(contextObjs,
             [executionContextId |-> params.executionContextId, frame |-> frame])
        /\ notified' =
             IF frame # Null
             THEN << [frame |-> frame, what |-> "contextCreated", role |-> "main",
                      context |-> context],
                     [frame |-> frame, what |-> "contextCreated", role |-> "utility",
                      context |-> context] >>
             ELSE <<>>
        /\ _contextIdToContext' = MapSet(_contextIdToContext, params.executionContextId, context)
        /\ thrown' = ""
        /\ emitted' = <<>>

ContextDestroyedParams ==
  {[NoParams EXCEPT !.executionContextId = c] : c \in ContextIds}

_onExecutionContextDestroyedNoEarlyReturn(params) ==
  /\ listening
  /\ lastOp' = Op("executionContextDestroyed", params)
  /\ UNCHANGED <<treeVars, contextObjs, listening, calls>>
  /\ emitted' = <<>>
  /\ LET context == MapGet(_contextIdToContext, params.executionContextId)
     IN /\ _contextIdToContext' = MapDelete(_contextIdToContext, params.executionContextId)
        /\ IF context = Null
           THEN thrown' = TypeError /\ notified' = <<>>
           ELSE /\ thrown' = ""
                /\ notified' =
                     IF contextFrame(context) # Null
                     THEN << [frame |-> contextFrame(context), what |-> "contextDestroyed",
                              role |-> "", context |-> context] >>
                     ELSE <<>>

_onExecutionContextDestroyed(params) ==
  /\ listening
  /\ lastOp' = Op("executionContextDestroyed", params)
  /\ UNCHANGED <<treeVars, contextObjs, listening, calls>>
  /\ emitted' = <<>>
  /\ thrown' = ""
  /\ LET context == MapGet(_contextIdToContext, params.executionContextId)
     IN IF context = Null
        THEN /\ notified' = <<>>
             /\ UNCHANGED _contextIdToContext
        ELSE /\ _contextIdToContext' = MapDelete(_contextIdToContext, params.executionContextId)
             /\ notified' =
                  IF contextFrame(context) # Null
                  THEN << [frame |-> contextFrame(context), what |-> "contextDestroyed",
                           role |-> "", context |-> context] >>
                  ELSE <<>>

\* executionContextById(id)
executionContextById(executionContextId) ==
  MapGet(_contextIdToContext, executionContextId)

\* dispose(): the manager's listeners leave the session; the watchdogs'
\* own listeners stay
dispose ==
  /\ listening' = FALSE
  /\ lastOp' = Op("dispose", NoParams)
  /\ thrown' = ""
  /\ emitted' = <<>>
  /\ notified' = <<>>
  /\ UNCHANGED <<treeVars, contextVars, calls>>

\* ---------------------------------------------------------------- frame tree
FrameAttached == \E params \in AttachParams : _onFrameAttached(params)
FrameDetached == \E params \in DetachParams : _onFrameDetached(params)
NavigationCommitted == \E params \in CommitParams : _onNavigationCommitted(params)
SameDocumentNavigation == \E params \in SameDocumentParams : _onSameDocumentNavigation(params)
EventFired == \E params \in EventFiredParams : _onEventFired(params)
ExecutionContextCreated ==
  \E params \in ContextCreatedParams : _onExecutionContextCreated(params)
ExecutionContextDestroyed ==
  \E params \in ContextDestroyedParams : _onExecutionContextDestroyed(params)

\* attach and detach notifications alone
NextTree ==
  \/ FrameAttached
  \/ FrameDetached
  \/ dispose

SpecTree == Init /\ [][NextTree]_vars

\* ---------------------------------------------------------------- lifecycle
\* event-fired notifications on a tree of two identifiers
LifecycleIds == {"f1", "f2"}
LifecycleAttachParams ==
  {params \in AttachParams :
     params.frameId \in LifecycleIds /\ params.parentFrameId \in {"", "f1"}}

NextLifecycle ==
  \/ \E params \in LifecycleAttachParams : _onFrameAttached(params)
  \/ \E params \in DetachParams : _onFrameDetached(params)
  \/ \E params \in EventFiredParams : _onEventFired(params)
  \/ dispose

SpecLifecycle == Init /\ [][NextLifecycle]_vars

\* ---------------------------------------------------------------- navigation
\* every frame notification, on a main frame and its child; here the
\* browser gives every frame it attaches an identifier it has not used before
AttachedIds == {frameObjs[frame].frameId : frame \in DOMAIN frameObjs}
NavigationAttachParams ==
  {params \in AttachParams :
     /\ params.frameId \notin AttachedIds
     /\ \/ params.frameId = "f1" /\ params.parentFrameId = ""
        \/ params.frameId = "f2" /\ params.parentFrameId = "f1"}

NextNavigation ==
  \/ \E params \in NavigationAttachParams : _onFrameAttached(params)
  \/ \E params \in DetachParams : _onFrameDetached(params)
  \/ \E params \in CommitParams : _onNavigationCommitted(params)
  \/ \E params \in SameDocumentParams : _onSameDocumentNavigation(params)
  \/ \E params \in EventFiredParams : _onEventFired(params)
  \/ dispose

SpecNavigation == Init /\ [][NextNavigation]_vars

\* ---------------------------------------------------------------- contexts
\* context notifications around one frame that comes and goes
MainFrameAttachParams ==
  {params \in AttachParams : params.frameId = "f1" /\ params.parentFrameId = ""}
MainFrameDetachParams == {params \in DetachParams : params.frameId = "f1"}

NextContexts ==
  \/ \E params \in MainFrameAttachParams : _onFrameAttached(params)
  \/ \E params \in MainFrameDetachParams : _onFrameDetached(params)
  \/ \E params \in ContextCreatedParams : _onExecutionContextCreated(params)
  \/ \E params \in ContextDestroyedParams : _onExecutionContextDestroyed(params)
  \/ dispose

SpecContexts == Init /\ [][NextContexts]_vars

\* ---------------------------------------------------------------- waits
\* what _timeoutSettings.navigationTimeout() may return
NavigationTimeouts == {0, 30000}

NoError == [kind |-> "none", ms |-> 0, condition |-> ""]
\* new TimeoutError('Navigation timeout of ' + timeout + ' ms exceeded')
TimeoutError(timeout) == [kind |-> "TimeoutError", ms |-> timeout, condition |-> ""]
\* new Error('Unknown waitUntil condition: ' + condition)
UnknownWaitUntil(condition) == [kind |-> "Error", ms |-> 0, condition |-> condition]
\* an error value a watchdog's promise resolves to
WatchdogFailure == [kind |-> "WatchdogError", ms |-> 0, condition |-> ""]

Min(S) == CHOOSE x \in S : \A y \in S : x <= y

\* A waitUntil option is [isArray, tokens]; a bare string is held as the one
\* element of tokens with isArray FALSE.
normalizeWaitUntilFirstOnly(waitUntil) ==
  LET array == IF waitUntil.isArray THEN waitUntil.tokens ELSE <<waitUntil.tokens[1]>>
      bad == {i \in DOMAIN array \cap {1} :
                array[i] # "load" /\ array[i] # "domcontentloaded"}
  IN IF bad = {}
     THEN [threw |-> FALSE, value |-> array, error |-> NoError]
     ELSE [threw |-> TRUE, value |-> <<>>, error |-> UnknownWaitUntil(array[Min(bad)])]

normalizeWaitUntil(waitUntil) ==
  LET array == IF waitUntil.isArray THEN waitUntil.tokens ELSE <<waitUntil.tokens[1]>>
      bad == {i \in DOMAIN array :
                array[i] # "load" /\ array[i] # "domcontentloaded"}
  IN IF bad = {}
     THEN [threw |-> FALSE, value |-> array, error |-> NoError]
     ELSE [threw |-> TRUE, value |-> <<>>, error |-> UnknownWaitUntil(array[Min(bad)])]

\* the destructuring defaults of the options argument
timeoutOption(params, navigationTimeout) ==
  IF params.hasTimeout THEN params.timeout ELSE navigationTimeout
waitUntilOption(params) ==
  IF params.hasWaitUntil THEN [isArray |-> params.isArray, tokens |-> params.tokens]
  ELSE [isArray |-> TRUE, tokens |-> <<"load">>]

\* a watchdog: not constructed, pending or resolved; disposed or not
NoWatchdog ==
  [state |-> "none", disposed |-> FALSE, error |-> NoError,
   navigationId |-> "", response |-> "null"]
\* new NextNavigationWatchdog(...) / new NavigationWatchdog(...)
NewWatchdog == [NoWatchdog EXCEPT !.state = "pending"]

Unsettled == [settled |-> FALSE, error |-> NoError]
Settled(error) == [settled |-> TRUE, error |-> error]

\* the state of one call of an async entry point
NewCall(kind, frame, timeout) ==
  [kind |-> kind, frame |-> frame, timeout |-> timeout,
   pc |-> "done", sent |-> FALSE, navigationId |-> "",
   timeoutError |-> NoError, timeoutId |-> "null", timeoutResolved |-> FALSE,
   armed |-> 0, timedOutIn |-> "",
   nextNavigationDog |-> NoWatchdog, watchDog |-> NoWatchdog,
   race |-> Unsettled,
   outcome |-> "pending", error |-> NoError, result |-> "undefined"]

setTimeoutAlways(call) ==
  [call EXCEPT !.timeoutId = "armed", !.armed = @ + 1]

\* setTimeout(timeoutCallback, timeout) unless the timeout is falsy
setTimeout(call) ==
  IF call.timeout # 0
  THEN [call EXCEPT !.timeoutId = "armed", !.armed = @ + 1]
  ELSE call
\* clearTimeout(timeoutId)
clearTimeout(call) ==
  IF call.timeoutId = "armed" THEN [call EXCEPT !.timeoutId = "cleared"] ELSE call

Throw(call, error) ==
  [call EXCEPT !.pc = "done", !.error = error,
               !.outcome = CASE error.kind = "TimeoutError" -> "TimedOut"
                             [] error.kind = "Error" -> "ValidationError"
                             [] OTHER -> "WatchdogError"]
Return(call, outcome, result) ==
  [call EXCEPT !.pc = "done", !.outcome = outcome, !.result = result]

WaitUntilOptions ==
  {[NoParams EXCEPT !.hasWaitUntil = FALSE]}
  \cup {[NoParams EXCEPT !.hasWaitUntil = TRUE, !.tokens = <<t>>] : t \in WaitUntilTokens}
  \cup {[NoParams EXCEPT !.hasWaitUntil = TRUE, !.isArray = TRUE, !.tokens = a] :
          a \in UNION {[1..n -> WaitUntilTokens] : n \in 0..2}}
CallOptions ==
  {[w EXCEPT !.hasTimeout = TRUE, !.timeout = t] : w \in WaitUntilOptions, t \in Timeouts}
  \cup WaitUntilOptions

asyncVars == <<treeVars, contextVars, listening>>

\* waitForFrameNavigation up to its first await
waitForFrameNavigation(params, navigationTimeout) ==
  /\ Len(calls) < MaxCalls
  /\ params.frame \in DOMAIN frameObjs
  /\ LET timeout == timeoutOption(params, navigationTimeout)
         normalized == normalizeWaitUntil(waitUntilOption(params))
         call == NewCall("waitForFrameNavigation", params.frame, timeout)
     IN /\ lastOp' = Op("waitForFrameNavigation", [params EXCEPT !.call = Len(calls) + 1])
        /\ calls' = Append(calls,
             IF normalized.threw THEN Throw(call, normalized.error)
             ELSE [setTimeout([call EXCEPT !.timeoutError = TimeoutError(timeout)])
                     EXCEPT !.nextNavigationDog = NewWatchdog, !.pc = "race1"])
  /\ thrown' = "" /\ emitted' = <<>> /\ notified' = <<>>
  /\ UNCHANGED asyncVars

\* navigateFrame up to the await of the Page.navigate command
navigateFrame(params, navigationTimeout) ==
  /\ Len(calls) < MaxCalls
  /\ params.frame \in DOMAIN frameObjs
  /\ LET timeout == timeoutOption(params, navigationTimeout)
         normalized == normalizeWaitUntil(waitUntilOption(params))
         call == NewCall("navigateFrame", params.frame, timeout)
     IN /\ lastOp' = Op("navigateFrame", [params EXCEPT !.call = Len(calls) + 1])
        /\ calls' = Append(calls,
             IF normalized.threw THEN Throw(call, normalized.error)
             ELSE [call EXCEPT !.sent = TRUE, !.pc = "send"])
  /\ thrown' = "" /\ emitted' = <<>> /\ notified' = <<>>
  /\ UNCHANGED asyncVars

AsyncStep(name, c, next) ==
  /\ calls' = [calls EXCEPT ![c] = next]
  /\ lastOp' = Op(name, NoParams)
  /\ thrown' = "" /\ emitted' = <<>> /\ notified' = <<>>
  /\ UNCHANGED asyncVars

navigateResponseArmsFirst(c, navigationId) ==
  /\ calls[c].pc = "send"
  /\ LET call == [calls[c] EXCEPT !.navigationId = navigationId]
         started == setTimeout([call EXCEPT !.timeoutError = TimeoutError(call.timeout)])
     IN AsyncStep("navigateResponse", c,
          IF navigationId = ""
          THEN Return(started, "NoNavigationStarted", "undefined")
          ELSE [started EXCEPT !.watchDog = [NewWatchdog EXCEPT !.navigationId = navigationId],
                               !.race = Unsettled, !.pc = "race2"])

\* navigateFrame from the command's response to its race
navigateResponse(c, navigationId) ==
  /\ calls[c].pc = "send"
  /\ LET call == [calls[c] EXCEPT !.navigationId = navigationId]
     IN AsyncStep("navigateResponse", c,
          IF navigationId = ""
          THEN Return(call, "NoNavigationStarted", "undefined")
          ELSE [setTimeout([call EXCEPT !.timeoutError = TimeoutError(call.timeout)])
                  EXCEPT !.watchDog = [NewWatchdog EXCEPT !.navigationId = navigationId],
                         !.race = Unsettled, !.pc = "race2"])

timeoutCallbackResolvesNothing(c) ==
  /\ calls[c].timeoutId = "armed"
  /\ AsyncStep("timeout", c, [calls[c] EXCEPT !.timeoutId = "fired"])

\* the timer fires: timeoutCallback resolves timeoutPromise with timeoutError
timeoutCallback(c) ==
  /\ calls[c].timeoutId = "armed"
  /\ AsyncStep("timeout", c,
       [calls[c] EXCEPT
          !.timeoutId = "fired", !.timeoutResolved = TRUE,
          !.timedOutIn = IF calls[c].race.settled THEN @ ELSE calls[c].pc,
          !.race = IF @.settled THEN @ ELSE Settled(calls[c].timeoutError)])

\* the promise of the NextNavigationWatchdog resolves; a disposed watchdog
\* has no listeners left to resolve it
nextNavigationDogResolves(c, error, navigationId) ==
  /\ calls[c].nextNavigationDog.state = "pending"
  /\ ~calls[c].nextNavigationDog.disposed
  /\ AsyncStep("nextNavigation", c,
       [calls[c] EXCEPT
          !.nextNavigationDog = [@ EXCEPT !.state = "resolved", !.error = error,
                                         !.navigationId = navigationId],
          !.race = IF @.settled THEN @ ELSE Settled(error)])

\* the promise of the NavigationWatchdog resolves
watchDogResolves(c, error, response) ==
  /\ calls[c].watchDog.state = "pending"
  /\ ~calls[c].watchDog.disposed
  /\ AsyncStep("navigationWatchdog", c,
       [calls[c] EXCEPT
          !.watchDog = [@ EXCEPT !.state = "resolved", !.error = error,
                                !.response = response],
          !.race = IF @.settled THEN @ ELSE Settled(error)])

DisposeNextNavigationDog(call) == [call EXCEPT !.nextNavigationDog.disposed = TRUE]
DisposeWatchDog(call) == [call EXCEPT !.watchDog.disposed = TRUE]

\* the second race starts: [timeoutPromise, watchDog.promise()]
StartSecondRace(call, navigationId) ==
  [call EXCEPT !.navigationId = navigationId,
               !.watchDog = [NewWatchdog EXCEPT !.navigationId = navigationId],
               !.race = IF call.timeoutResolved THEN Settled(call.timeoutError)
                        ELSE Unsettled,
               !.pc = "race2"]

firstRaceDoneThrowsBeforeClear(call) ==
  LET error1 == call.race.error
      disposed == DisposeNextNavigationDog(call)
      navigationId == disposed.nextNavigationDog.navigationId
  IN IF error1 # NoError THEN Throw(disposed, error1)
     ELSE IF navigationId = ""
          THEN Return(clearTimeout(disposed), "CompletedSameDocument", "null")
          ELSE StartSecondRace(disposed, navigationId)

firstRaceDoneRearms(call) ==
  LET error1 == call.race.error
      disposed == DisposeNextNavigationDog(call)
      navigationId == disposed.nextNavigationDog.navigationId
  IN IF error1 # NoError THEN Throw(clearTimeout(disposed), error1)
     ELSE IF navigationId = ""
          THEN Return(clearTimeout(disposed), "CompletedSameDocument", "null")
          ELSE StartSecondRace(setTimeout(clearTimeout(disposed)), navigationId)

firstRaceDoneNoSameDocument(call) ==
  LET error1 == call.race.error
      disposed == DisposeNextNavigationDog(call)
      navigationId == disposed.nextNavigationDog.navigationId
  IN IF error1 # NoError THEN Throw(clearTimeout(disposed), error1)
     ELSE StartSecondRace(disposed, navigationId)

\* waitForFrameNavigation from the end of its first race to its return,
\* its throw or its second race
firstRaceDone(call) ==
  LET error1 == call.race.error
      disposed == DisposeNextNavigationDog(call)
      navigationId == disposed.nextNavigationDog.navigationId
  IN IF error1 # NoError THEN Throw(clearTimeout(disposed), error1)
     ELSE IF navigationId = ""
          THEN Return(clearTimeout(disposed), "CompletedSameDocument", "null")
          ELSE StartSecondRace(disposed, navigationId)

secondRaceDoneNoDispose(call) ==
  LET error == call.race.error
      cleared == clearTimeout(call)
  IN IF error # NoError THEN Throw(cleared, error)
     ELSE Return(cleared, "CompletedNavigation", cleared.watchDog.response)

\* either entry point from the end of the race with the NavigationWatchdog
secondRaceDone(call) ==
  LET error == call.race.error
      cleared == clearTimeout(DisposeWatchDog(call))
  IN IF error # NoError THEN Throw(cleared, error)
     ELSE Return(cleared, "CompletedNavigation", cleared.watchDog.response)

afterFirstRace(c) ==
  /\ calls[c].pc = "race1"
  /\ calls[c].race.settled
  /\ AsyncStep("afterFirstRace", c, firstRaceDone(calls[c]))

afterSecondRace(c) ==
  /\ calls[c].pc = "race2"
  /\ calls[c].race.settled
  /\ AsyncStep("afterSecondRace", c, secondRaceDone(calls[c]))

\* ---------------------------------------------------------------- wait protocol
WaitParams == {[o EXCEPT !.frame = f] : o \in CallOptions, f \in 1..MaxFrames}
NavigateParams == {[o EXCEPT !.url = u] : o \in WaitParams, u \in Urls}
Responses == {"null", "response"}

WaitForFrameNavigation ==
  \E params \in WaitParams, navigationTimeout \in NavigationTimeouts :
     waitForFrameNavigation(params, navigationTimeout)
NavigateFrame ==
  \E params \in NavigateParams, navigationTimeout \in NavigationTimeouts :
     navigateFrame(params, navigationTimeout)
NavigateResponse ==
  \E c \in DOMAIN calls, navigationId \in NavigationIds \cup {""} :
     navigateResponse(c, navigationId)
TimeoutCallback == \E c \in DOMAIN calls : timeoutCallback(c)
NextNavigationDogResolves ==
  \E c \in DOMAIN calls :
     \/ \E navigationId \in NavigationIds \cup {""} :
          nextNavigationDogResolves(c, NoError, navigationId)
     \/ nextNavigationDogResolves(c, WatchdogFailure, "")
WatchDogResolves ==
  \E c \in DOMAIN calls :
     \/ \E response \in Responses : watchDogResolves(c, NoError, response)
     \/ watchDogResolves(c, WatchdogFailure, "null")
AfterFirstRace == \E c \in DOMAIN calls : afterFirstRace(c)
AfterSecondRace == \E c \in DOMAIN calls : afterSecondRace(c)

NextWait ==
  \/ \E params \in MainFrameAttachParams : _onFrameAttached(params)
  \/ \E params \in MainFrameDetachParams : _onFrameDetached(params)
  \/ dispose
  \/ WaitForFrameNavigation
  \/ NavigateFrame
  \/ NavigateResponse
  \/ TimeoutCallback
  \/ NextNavigationDogResolves
  \/ WatchDogResolves
  \/ AfterFirstRace
  \/ AfterSecondRace

SpecWait == Init /\ [][NextWait]_vars

\* An armed timer that is not cleared fires, and the continuation of a
\* settled await runs: the event loop leaves neither waiting for ever.
FairWait ==
  \A c \in 1..MaxCalls :
    /\ WF_vars(c \in DOMAIN calls /\ timeoutCallback(c))
    /\ WF_vars(c \in DOMAIN calls /\ afterFirstRace(c))
    /\ WF_vars(c \in DOMAIN calls /\ afterSecondRace(c))

\* calls that name their timeout and leave waitUntil to its default
TimedWaitParams == {params \in WaitParams : params.hasTimeout /\ ~params.hasWaitUntil}
TimedNavigateParams ==
  {params \in NavigateParams : params.hasTimeout /\ ~params.hasWaitUntil}

\* such calls on one main frame that is attached once and may be detached
NextWaitFair ==
  \/ \E params \in MainFrameAttachParams :
       params.frameId \notin AttachedIds /\ _onFrameAttached(params)
  \/ \E params \in MainFrameDetachParams : _onFrameDetached(params)
  \/ dispose
  \/ \E params \in TimedWaitParams, navigationTimeout \in NavigationTimeouts :
       waitForFrameNavigation(params, navigationTimeout)
  \/ \E params \in TimedNavigateParams, navigationTimeout \in NavigationTimeouts :
       navigateFrame(params, navigationTimeout)
  \/ NavigateResponse
  \/ TimeoutCallback
  \/ NextNavigationDogResolves
  \/ WatchDogResolves
  \/ AfterFirstRace
  \/ AfterSecondRace

SpecWaitFair == Init /\ [][NextWaitFair]_vars /\ FairWait

\* ---------------------------------------------------------------- the manager
Next ==
  \/ FrameAttached
  \/ FrameDetached
  \/ NavigationCommitted
  \/ SameDocumentNavigation
  \/ EventFired
  \/ ExecutionContextCreated
  \/ ExecutionContextDestroyed
  \/ dispose
  \/ WaitForFrameNavigation
  \/ NavigateFrame
  \/ NavigateResponse
  \/ TimeoutCallback
  \/ NextNavigationDogResolves
  \/ WatchDogResolves
  \/ AfterFirstRace
  \/ AfterSecondRace

Spec == Init /\ [][Next]_vars

\* ================================================================ claims
Settled_(call) == call.outcome # "pending"
Cleaned(dog) == dog.state # "none" => dog.disposed
NoTimerNoWatchdog(call) ==
  /\ call.armed = 0
  /\ call.timeoutId = "null"
  /\ call.nextNavigationDog.state = "none"
  /\ call.watchDog.state = "none"
Outcomes ==
  {"TimedOut", "CompletedSameDocument", "CompletedNavigation",
   "NoNavigationStarted", "ValidationError", "WatchdogError"}

\* C1: a call has no outcome while it runs and one of the terminal outcomes
\* once it is over; from the step that gives it its outcome on, no step (a
\* timer, a watchdog, a notification, dispose()) changes the outcome, the
\* error or the result, resolves a timer or watchdog of the call, or starts a
\* race for it again; and a call whose race the timer won ends TimedOut,
\* whatever its watchdog does afterwards.
C1_SettlesOnce ==
  [][\A c \in DOMAIN calls :
       /\ (calls[c].outcome = "pending") = (calls[c].pc # "done")
       /\ calls[c].outcome \in Outcomes \cup {"pending"}
       /\ (calls[c].pc = "done" /\ calls[c].timedOutIn # ""
             => calls[c].outcome = "TimedOut")
       /\ (Settled_(calls[c]) => calls'[c] = calls[c])]_vars

\* a call that timed out, whose watchdog resolved after the timer had won,
\* and on whose manager dispose() was then called
C1_Witness ==
  \E c \in DOMAIN calls :
     /\ calls[c].outcome = "TimedOut"
     /\ calls[c].watchDog.state = "resolved"
     /\ lastOp.op = "dispose"

\* C2: a settled call has no pending timer and every watchdog it constructed
\* has been disposed.
C2_SettledCallsCleanUp ==
  \A c \in DOMAIN calls :
     Settled_(calls[c]) =>
       /\ calls[c].timeoutId # "armed"
       /\ Cleaned(calls[c].nextNavigationDog)
       /\ Cleaned(calls[c].watchDog)

\* a wait that went through both races and ended on a watchdog error with
\* its timer still to fire
C2_Witness ==
  \E c \in DOMAIN calls :
     /\ calls[c].outcome = "WatchdogError"
     /\ calls[c].timeoutId = "cleared"
     /\ calls[c].nextNavigationDog.disposed
     /\ calls[c].watchDog.disposed

\* C3: a waitForFrameNavigation call arms its timer once, when it starts, if
\* its timeout T is not zero, and never again; if the timer fires while a race
\* of the call is undecided (the first or the second), the call ends TimedOut
\* with the timeout error carrying T.
C3_TimeoutCarriesT ==
  \A c \in DOMAIN calls :
     calls[c].kind = "waitForFrameNavigation" /\ calls[c].outcome # "ValidationError" =>
       /\ calls[c].armed = IF calls[c].timeout # 0 THEN 1 ELSE 0
       /\ (calls[c].timedOutIn # "" /\ calls[c].pc = "done" =>
             /\ calls[c].timeout # 0
             /\ calls[c].outcome = "TimedOut"
             /\ calls[c].error =
                  [kind |-> "TimeoutError", ms |-> calls[c].timeout, condition |-> ""])

\* a wait with timeout 5 whose timer fired during the second race
C3_Witness ==
  \E c \in DOMAIN calls :
     /\ calls[c].kind = "waitForFrameNavigation"
     /\ calls[c].timeout = 5
     /\ calls[c].timedOutIn = "race2"
     /\ calls[c].outcome = "TimedOut"

\* C4: when the next-navigation watchdog of a wait resolves without error and
\* with an empty navigation identifier while the first race is undecided, no
\* second watchdog is ever constructed for the call, and the call ends
\* CompletedSameDocument with result null, no error and no pending timer.
C4_SameDocument ==
  \A c \in DOMAIN calls :
     /\ calls[c].kind = "waitForFrameNavigation"
     /\ calls[c].nextNavigationDog.state = "resolved"
     /\ calls[c].nextNavigationDog.error = NoError
     /\ calls[c].nextNavigationDog.navigationId = ""
     /\ calls[c].timedOutIn = ""
     => /\ calls[c].watchDog.state = "none"
        /\ (calls[c].pc = "done" =>
              /\ calls[c].outcome = "CompletedSameDocument"
              /\ calls[c].result = "null"
              /\ calls[c].error = NoError
              /\ calls[c].timeoutId # "armed")

\* a wait with an armed timer that a same-document navigation completed
C4_Witness ==
  \E c \in DOMAIN calls :
     /\ calls[c].outcome = "CompletedSameDocument"
     /\ calls[c].timeoutId = "cleared"

\* C5: a navigateFrame call has no timer and no watchdog while its navigate
\* command is in flight, and when the command returns an empty navigation
\* identifier the call ends NoNavigationStarted with result undefined, still
\* without ever having armed a timer or constructed a watchdog.
C5_NoNavigationStarted ==
  \A c \in DOMAIN calls :
     calls[c].kind = "navigateFrame" =>
       /\ (calls[c].pc = "send" => NoTimerNoWatchdog(calls[c]))
       /\ (calls[c].sent /\ calls[c].pc # "send" /\ calls[c].navigationId = "" =>
             /\ calls[c].outcome = "NoNavigationStarted"
             /\ calls[c].result = "undefined"
             /\ calls[c].error = NoError
             /\ NoTimerNoWatchdog(calls[c]))

\* a navigateFrame with a non-zero timeout that ended NoNavigationStarted
C5_Witness ==
  \E c \in DOMAIN calls :
     /\ calls[c].outcome = "NoNavigationStarted"
     /\ calls[c].timeout # 0

HasUnknownToken(params) ==
  /\ params.hasWaitUntil
  /\ \E i \in DOMAIN params.tokens :
        params.tokens[i] \notin {"load", "domcontentloaded"}

\* C6: a call of either entry point whose waitUntil holds a token other than
\* load and domcontentloaded ends at once with the validation error naming
\* such a token: no navigate command sent, no timer armed, no watchdog
\* constructed, then or later.
C6_ValidationFirst ==
  /\ lastOp.op \in {"waitForFrameNavigation", "navigateFrame"}
       /\ HasUnknownToken(lastOp.params)
     => LET call == calls[lastOp.params.call]
        IN /\ call.kind = lastOp.op
           /\ call.outcome = "ValidationError"
           /\ call.error.kind = "Error"
           /\ call.error.condition \in Range(lastOp.params.tokens)
                                         \ {"load", "domcontentloaded"}
  /\ \A c \in DOMAIN calls :
        calls[c].outcome = "ValidationError" =>
          ~calls[c].sent /\ NoTimerNoWatchdog(calls[c])

\* navigateFrame called with ['load', 'networkidle']
C6_Witness ==
  /\ lastOp.op = "navigateFrame"
  /\ lastOp.params.isArray
  /\ lastOp.params.tokens = <<"load", "networkidle">>
  /\ calls[lastOp.params.call].outcome = "ValidationError"

ChildrenOf(F) == UNION {Range(childFrames(f)) : f \in F}
RECURSIVE ReachableFrom(_)
ReachableFrom(F) ==
  LET G == F \cup ChildrenOf(F) IN IF G = F THEN F ELSE ReachableFrom(G)

\* C7: whenever there is a main frame, frames() lists exactly the frames
\* reachable from it through child links, each once, a parent before its
\* children, and the children of one frame in the order they were attached
\* (frames are numbered in the order they were attached).
C7_FramesPreOrder ==
  _mainFrame # Null =>
    LET all == frames
    IN /\ Range(all) = ReachableFrom({_mainFrame})
       /\ \A i, j \in DOMAIN all : i # j => all[i] # all[j]
       /\ \A i, j \in DOMAIN all :
             all[j] \in Range(childFrames(all[i])) => i < j
       /\ \A i, j \in DOMAIN all, p \in DOMAIN frameObjs :
             /\ all[i] \in Range(childFrames(p))
             /\ all[j] \in Range(childFrames(p))
             /\ all[i] < all[j]
             => i < j

\* a main frame with two children
C7_Witness ==
  /\ _mainFrame # Null
  /\ Len(childFrames(_mainFrame)) = 2
  /\ Len(frames) = 3

\* C8: an attach notification whose parent identifier resolves to no
\* registered frame, handled while there is a main frame, throws the
\* assertion error and leaves the frame map and the main-frame reference as
\* they were, emitting nothing.
C8_SecondMainFrame ==
  [][(/\ lastOp'.op = "frameAttached"
      /\ MapGet(_frames, lastOp'.params.parentFrameId) = Null
      /\ _mainFrame # Null)
     => /\ thrown' = AssertionError
        /\ _frames' = _frames
        /\ _mainFrame' = _mainFrame
        /\ \A i \in DOMAIN emitted' : emitted'[i].type # "FrameAttached"]_vars

\* an attach naming an unknown parent that failed while frames were registered
C8_Witness ==
  /\ lastOp.op = "frameAttached"
  /\ lastOp.params.parentFrameId \in FrameIds
  /\ thrown = AssertionError
  /\ _frames # <<>>

Count(events, type) == Cardinality({i \in DOMAIN events : events[i].type = type})

\* C9: an event-fired notification named load for the registered main frame
\* emits one Load event and no DOMContentLoaded event; for a registered frame
\* that is not the main frame it emits neither.
C9_LoadOnMainFrameOnly ==
  LET frame == MapGet(_frames, lastOp.params.frameId)
  IN lastOp.op = "eventFired" /\ lastOp.params.name = "load" /\ frame # Null =>
       IF frame = _mainFrame
       THEN Count(emitted, "Load") = 1 /\ Count(emitted, "DOMContentLoaded") = 0
       ELSE Count(emitted, "Load") = 0 /\ Count(emitted, "DOMContentLoaded") = 0

\* load fired on a child frame after it had fired on the main frame
C9_Witness ==
  LET frame == MapGet(_frames, lastOp.params.frameId)
  IN /\ lastOp.op = "eventFired"
     /\ lastOp.params.name = "load"
     /\ frame # Null
     /\ frame # _mainFrame
     /\ _mainFrame # Null
     /\ "load" \in frameObjs[_mainFrame].firedEvents

\* C10: a context-destroyed notification for an identifier that is not in the
\* context registry changes neither the registry nor the frame map nor any
\* frame or context, notifies no frame and throws nothing.
C10_UnknownContextDestroyed ==
  [][(/\ lastOp'.op = "executionContextDestroyed"
      /\ lastOp'.params.executionContextId \notin DOMAIN _contextIdToContext)
     => /\ UNCHANGED <<treeVars, contextVars>>
        /\ notified' = <<>>
        /\ thrown' = ""]_vars

\* the notification named an identifier no context was ever created with,
\* while another context was registered
C10_Witness ==
  /\ lastOp.op = "executionContextDestroyed"
  /\ \A i \in DOMAIN contextObjs :
        contextObjs[i].executionContextId # lastOp.params.executionContextId
  /\ _contextIdToContext # <<>>
  /\ thrown = ""

\* C11 (as stated, at the step of the call): a waitForFrameNavigation call
\* made with a zero or an absent timeout option has armed no timer.
C11_AbsentTimeoutArmsNoTimer ==
  /\ lastOp.op = "waitForFrameNavigation"
  /\ ~lastOp.params.hasTimeout \/ lastOp.params.timeout = 0
  => calls[lastOp.params.call].armed = 0

\* C11 (amended): the timeout of a call is its timeout option or, when the
\* option is absent, what navigationTimeout() returns. A call whose timeout
\* is zero arms no timer, never ends TimedOut, and its race stays undecided
\* for as long as its watchdog is pending; a call whose timeout is not zero
\* has armed its timer by the time it races.
C11_ZeroTimeoutArmsNoTimer ==
  /\ lastOp.op \in {"waitForFrameNavigation", "navigateFrame"} =>
       calls[lastOp.params.call].timeout \in
         IF lastOp.params.hasTimeout THEN {lastOp.params.timeout}
         ELSE NavigationTimeouts
  /\ \A c \in DOMAIN calls :
        /\ calls[c].timeout = 0 =>
             /\ calls[c].armed = 0
             /\ calls[c].timeoutId = "null"
             /\ ~calls[c].timeoutResolved
             /\ calls[c].outcome # "TimedOut"
             /\ (calls[c].pc = "race1" /\ calls[c].nextNavigationDog.state = "pending"
                   => ~calls[c].race.settled)
             /\ (calls[c].pc = "race2" /\ calls[c].watchDog.state = "pending"
                   => ~calls[c].race.settled)
        /\ calls[c].timeout # 0 /\ calls[c].pc \in {"race1", "race2"} =>
             calls[c].armed = 1

\* a wait with timeout zero that reached its second race without a timer
C11_Witness ==
  \E c \in DOMAIN calls :
     /\ calls[c].kind = "waitForFrameNavigation"
     /\ calls[c].timeout = 0
     /\ calls[c].pc = "race2"
     /\ calls[c].watchDog.state = "pending"

Registered == {_frames[id] : id \in DOMAIN _frames}

\* C12: once a frame has been attached, exactly one frame registered in the
\* frame map has no parent, and it is the frame _mainFrame refers to.
C12_OneParentlessFrame ==
  frameObjs # <<>> =>
    {frame \in Registered : frameObjs[frame].parentFrame = Null} = {_mainFrame}

\* C13: no two live frames (constructed by an attach and not detached since)
\* carry the same frame identifier.
C13_OneLiveFramePerId ==
  \A a, b \in DOMAIN frameObjs :
     /\ a # b
     /\ ~frameObjs[a].detached
     /\ ~frameObjs[b].detached
     => frameObjs[a].frameId # frameObjs[b].frameId

\* the lowercase form of an event name
LowerCased(name) ==
  IF name \in {"load", "Load"} THEN "load"
  ELSE IF name = "DOMContentLoaded" THEN "domcontentloaded" ELSE name

\* C14: a frame starts with no fired events and no committed navigation; an
\* event-fired notification adds the lowercased name to the fired events of
\* the frame registered under its identifier; a navigation-committed
\* notification empties that frame's fired events and records the navigation
\* identifier; nothing else changes either field of any frame. So the fired
\* events of a registered frame are the lowercased names fired for it since
\* its last commit (or its attach).
C14_FiredEventsSinceCommit ==
  [][\A frame \in DOMAIN frameObjs' :
       LET target == MapGet(_frames, lastOp'.params.frameId)
           new == frameObjs'[frame]
       IN IF frame \notin DOMAIN frameObjs
          THEN new.firedEvents = {} /\ new.lastCommittedNavigationId = ""
          ELSE IF lastOp'.op = "eventFired" /\ frame = target
          THEN /\ new.firedEvents =
                    frameObjs[frame].firedEvents \cup {LowerCased(lastOp'.params.name)}
               /\ new.lastCommittedNavigationId =
                    frameObjs[frame].lastCommittedNavigationId
          ELSE IF lastOp'.op = "navigationCommitted" /\ frame = target
          THEN /\ new.firedEvents = {}
               /\ new.lastCommittedNavigationId = lastOp'.params.navigationId
          ELSE /\ new.firedEvents = frameObjs[frame].firedEvents
               /\ new.lastCommittedNavigationId =
                    frameObjs[frame].lastCommittedNavigationId]_vars

\* Load fired on a child frame whose committed navigation had emptied its
\* fired events
C14_Witness ==
  LET frame == MapGet(_frames, lastOp.params.frameId)
  IN /\ lastOp.op = "eventFired"
     /\ lastOp.params.name = "Load"
     /\ frame # Null
     /\ frame # _mainFrame
     /\ frameObjs[frame].lastCommittedNavigationId = "nav1"
     /\ frameObjs[frame].firedEvents = {"load"}

\* C15: a same-document-navigation notification for a registered frame sets
\* that frame's url to the notified url and emits one FrameNavigated event for
\* it; every other field of that frame, every other frame, the frame map, the
\* main-frame reference and the context registry are unchanged.
C15_SameDocumentChangesUrlOnly ==
  [][LET frame == MapGet(_frames, lastOp'.params.frameId)
     IN (lastOp'.op = "sameDocumentNavigation" /\ frame # Null) =>
          /\ frameObjs' = [frameObjs EXCEPT ![frame].url = lastOp'.params.url]
          /\ emitted' = <<Event("FrameNavigated", frame)>>
          /\ thrown' = ""
          /\ _frames' = _frames
          /\ _mainFrame' = _mainFrame
          /\ contextObjs' = contextObjs
          /\ _contextIdToContext' = _contextIdToContext]_vars

\* a named child frame with a committed navigation and a fired event has
\* moved to a fragment url, next to a main frame with a different url
C15_Witness ==
  LET frame == MapGet(_frames, lastOp.params.frameId)
  IN /\ lastOp.op = "sameDocumentNavigation"
     /\ frame # Null
     /\ frame # _mainFrame
     /\ frameObjs[frame].url = "u1#a"
     /\ frameObjs[frame].name = "n1"
     /\ frameObjs[frame].lastCommittedNavigationId = "nav1"
     /\ frameObjs[frame].firedEvents # {}
     /\ frameObjs[_mainFrame].url = "u1"
     /\ emitted = <<Event("FrameNavigated", frame)>>

\* a frame one of whose ancestors has been detached
RECURSIVE HasDetachedAncestor(_)
HasDetachedAncestor(frame) ==
  LET parent == frameObjs[frame].parentFrame
  IN parent # Null /\ (frameObjs[parent].detached \/ HasDetachedAncestor(parent))

\* C16: a detach notification for a registered frame removes that frame's
\* identifier from the frame map and no other, marks the frame detached and
\* emits one FrameDetached event for it; and a later event-fired,
\* navigation-committed or same-document notification naming a registered
\* frame below a detached one is handled and updates that frame.
C16_DetachRemovesOneEntry ==
  [][LET frame == MapGet(_frames, lastOp'.params.frameId)
         op == lastOp'.op
     IN /\ (op = "frameDetached" /\ frame # Null) =>
             /\ DOMAIN _frames' = DOMAIN _frames \ {lastOp'.params.frameId}
             /\ \A id \in DOMAIN _frames' : _frames'[id] = _frames[id]
             /\ frameObjs'[frame].detached
             /\ \A other \in DOMAIN frameObjs \ {frame} :
                  frameObjs'[other].detached = frameObjs[other].detached
             /\ emitted' = <<Event("FrameDetached", frame)>>
             /\ thrown' = ""
        /\ (frame # Null /\ HasDetachedAncestor(frame)) =>
             /\ op = "eventFired" =>
                  /\ thrown' = ""
                  /\ LowerCased(lastOp'.params.name) \in frameObjs'[frame].firedEvents
             /\ op = "navigationCommitted" =>
                  /\ thrown' = ""
                  /\ frameObjs'[frame].url = lastOp'.params.url
                  /\ frameObjs'[frame].name = lastOp'.params.name
                  /\ frameObjs'[frame].lastCommittedNavigationId =
                       lastOp'.params.navigationId
             /\ op = "sameDocumentNavigation" =>
                  /\ thrown' = ""
                  /\ frameObjs'[frame].url = lastOp'.params.url]_vars

\* the main frame has been detached and left the map; its child is still
\* registered, has committed a navigation and has just taken a fired event
C16_Witness ==
  LET frame == MapGet(_frames, lastOp.params.frameId)
  IN /\ lastOp.op = "eventFired"
     /\ thrown = ""
     /\ frame # Null
     /\ frameObjs[frame].parentFrame = _mainFrame
     /\ frameObjs[_mainFrame].detached
     /\ frameObjs[_mainFrame].frameId \notin DOMAIN _frames
     /\ ~frameObjs[frame].detached
     /\ frameObjs[frame].lastCommittedNavigationId = "nav1"
     /\ toLowerCase(lastOp.params.name) \in frameObjs[frame].firedEvents

\* the notifications whose handlers dereference the frame they look up
FrameNotifications ==
  {"navigationCommitted", "sameDocumentNavigation", "eventFired", "frameDetached"}

\* C20: a navigation-committed, same-document-navigation, event-fired or
\* detach notification naming an identifier that is not in the frame map
\* throws in its handler, emits no event, and leaves the frame map, the
\* main-frame reference, the context registry and every frame unchanged.
C20_UnknownFrameFailsWithoutEffect ==
  [][(/\ lastOp'.op \in FrameNotifications
      /\ lastOp'.params.frameId \notin DOMAIN _frames) =>
       /\ thrown' # ""
       /\ emitted' = <<>>
       /\ notified' = <<>>
       /\ _frames' = _frames
       /\ _mainFrame' = _mainFrame
       /\ frameObjs' = frameObjs
       /\ contextObjs' = contextObjs
       /\ _contextIdToContext' = _contextIdToContext]_vars

\* a second detach notification for a child frame that was navigated and
\* then detached: it throws, and the frame keeps what it had
C20_Witness ==
  /\ lastOp.op = "frameDetached"
  /\ thrown = TypeError
  /\ emitted = <<>>
  /\ lastOp.params.frameId \notin DOMAIN _frames
  /\ \E frame \in DOMAIN frameObjs :
       /\ frameObjs[frame].frameId = lastOp.params.frameId
       /\ frameObjs[frame].detached
       /\ frameObjs[frame].url = "u1"
       /\ frameObjs[frame].firedEvents # {}
  /\ _mainFrame # Null
  /\ ~frameObjs[_mainFrame].detached

\* C17: a context-created notification notifies the frame registered under
\* its auxiliary frame identifier twice with the new context (role main, then
\* role utility), or no frame when none is registered under it; the new
\* context is registered under its identifier; and the context registered
\* under an identifier stays the one lookup returns until a context-destroyed
\* notification for that identifier is handled.
C17_RegisteredUntilDestroyed ==
  [][/\ lastOp'.op = "executionContextCreated" =>
          LET frameId == IF lastOp'.params.hasAuxData THEN lastOp'.params.frameId ELSE ""
              frame == MapGet(_frames, frameId)
              context == MapGet(_contextIdToContext', lastOp'.params.executionContextId)
          IN /\ context \in DOMAIN contextObjs' \ DOMAIN contextObjs
             /\ IF frame # Null
                THEN /\ Len(notified') = 2
                     /\ notified'[1] = [frame |-> frame, what |-> "contextCreated",
                                        role |-> "main", context |-> context]
                     /\ notified'[2] = [frame |-> frame, what |-> "contextCreated",
                                        role |-> "utility", context |-> context]
                ELSE notified' = <<>>
     /\ \A id \in DOMAIN _contextIdToContext :
          \/ MapGet(_contextIdToContext', id) = _contextIdToContext[id]
          \/ /\ lastOp'.op = "executionContextDestroyed"
             /\ lastOp'.params.executionContextId = id]_vars

\* C19: the main-frame reference is empty until an attach notification
\* without a registered parent succeeds and sets it to the frame it creates;
\* once set, no step clears or replaces it; so after the main frame has been
\* detached every attach notification without a registered parent fails and
\* changes nothing, and frames() still starts with the detached main frame.
C19_MainFrameWriteOnce ==
  [][LET attach == lastOp'.op = "frameAttached"
         parentFrame == MapGet(_frames, lastOp'.params.parentFrameId)
     IN /\ _mainFrame # Null => _mainFrame' = _mainFrame
        /\ (_mainFrame = Null /\ _mainFrame' # Null) =>
             /\ attach
             /\ parentFrame = Null
             /\ thrown' = ""
             /\ _mainFrame' = Len(frameObjs')
             /\ _mainFrame' \notin DOMAIN frameObjs
        /\ (_mainFrame = Null /\ attach /\ parentFrame = Null) => _mainFrame' # Null
        /\ (_mainFrame # Null /\ attach /\ parentFrame = Null) =>
             /\ thrown' = AssertionError
             /\ emitted' = <<>>
             /\ frameObjs' = frameObjs
             /\ _frames' = _frames
        /\ _mainFrame' # Null => Head(frames)' = _mainFrame']_vars

\* the main frame was detached, and a later parentless attach has failed
C19_Witness ==
  /\ lastOp.op = "frameAttached"
  /\ lastOp.params.parentFrameId = ""
  /\ thrown = AssertionError
  /\ _mainFrame # Null
  /\ frameObjs[_mainFrame].detached
  /\ frameObjs[_mainFrame].frameId \notin DOMAIN _frames
  /\ Head(frames) = _mainFrame

\* a call that has reached a race with a non-zero timeout
RacingWithTimeout(c) ==
  /\ c \in DOMAIN calls
  /\ calls[c].timeout # 0
  /\ calls[c].pc \in {"race1", "race2"}

\* C18: when timers fire and continuations run, every waitForFrameNavigation
\* call with a non-zero timeout, and every navigateFrame call with a non-zero
\* timeout whose command returned a navigation identifier, eventually has a
\* terminal outcome, whatever else happens: no watchdog resolving, the frame
\* detached, the manager disposed.
C18_TimedCallsSettle ==
  \A c \in 1..MaxCalls :
    RacingWithTimeout(c) ~> (c \in DOMAIN calls /\ calls[c].outcome # "pending")

\* a navigateFrame call timed out although its watchdog never resolved, its
\* frame was detached and the manager was disposed
C18_Witness ==
  \E c \in DOMAIN calls :
    /\ calls[c].kind = "navigateFrame"
    /\ calls[c].outcome = "TimedOut"
    /\ calls[c].navigationId # ""
    /\ calls[c].watchDog.state = "pending"
    /\ frameObjs[calls[c].frame].detached
    /\ ~listening

====
